---- MODULE Spec2Model ----
(***************************************************************************)
(* kube-rollback-controller (src/main.go): a loop that lists the           *)
(* deployments of a namespace, finds the ones whose rollout went over its  *)
(* progress deadline and asks the API server to roll each of them back.    *)
(*                                                                         *)
(* The API server's store (here: dir) is shared with the deployment        *)
(* controller and with operators, who write to it at any moment.           *)
(***************************************************************************)
EXTENDS Integers, Sequences, FiniteSets, TLC

\* ---------------------------------------------------------------- bounds
NumRecords == 3         \* deployment names in the namespace
MaxEnvSteps == 1        \* writes by other actors in one behaviour
MaxConds == 2           \* conditions per deployment in the classifier runs

\* ------------------------------------------------------------- data model
\* A *string field that is nil.
Nil == "<nil>"

\* `var lastRevision int64 = 0`
lastRevision == 0

Names == 1..NumRecords

\* *int64 Revision values another actor may ask for (0 and a specific one).
Revisions == {0, 1}

\* Spec.RollbackTo: <<>> is the nil pointer, <<r>> is &RollbackConfig{Revision: &r}.
RollbackNil == <<>>
RollbackConfig(r) == <<r>>
RollbackValues == {RollbackNil} \cup {RollbackConfig(r) : r \in Revisions}

Types == {Nil, "Progressing", "Available"}
Statuses == {Nil, "False", "True"}
Reasons == {Nil, "ProgressDeadlineExceeded", "NewReplicaSetAvailable"}
Conditions == [type : Types, status : Statuses, reason : Reasons]

\* Status.Conditions as the deployment controller writes them.
FailedConds ==
    << [type |-> "Available", status |-> "True", reason |-> Nil],
       [type |-> "Progressing", status |-> "False", reason |-> "ProgressDeadlineExceeded"] >>
HealthyConds ==
    << [type |-> "Available", status |-> "True", reason |-> Nil],
       [type |-> "Progressing", status |-> "True", reason |-> "NewReplicaSetAvailable"] >>
CondChoices == {FailedConds, HealthyConds}

\* A name that holds no deployment.
NotFound == [name |-> 0, conditions |-> <<>>, rollbackTo |-> RollbackNil]

Deployment(n, conds, rb) == [name |-> n, conditions |-> conds, rollbackTo |-> rb]

VARIABLES
    dir,          \* the API server's deployments of the namespace, by name
    envSteps,     \* writes made so far by other actors
    pc,           \* where main/run stands: "list", "scan", "update", "returned"
    deployments,  \* run: deployments.Items
    toUpdate,     \* run: toUpdate
    failed,       \* run: failed
    i,            \* run: position of the range loop over toUpdate
    err,          \* main: what the last run returned ("nil", "list", "update")
    listing,      \* history: the items as ListDeployments returned them
    calls,        \* history: the UpdateDeployment calls of this pass
    summary,      \* history: the "deployments=.." line of this pass, <<>> if none
    prevOk,       \* history: names updated successfully in the previous pass
    prevLeft,     \* history: names the last pass that listed left undispatched
                  \*          when an update error ended it
    issued,       \* history: names the controller has written a rollback request
                  \*          to that no other actor has since cleared or deleted
    cd,           \* classifier run: the deployment given to deploymentFailed
    cres          \* classifier run: <<>> or <<result>>

runVars == <<pc, deployments, toUpdate, failed, i, err, listing, calls, summary, prevOk,
             prevLeft>>
classVars == <<cd, cres>>
vars == <<dir, envSteps, pc, deployments, toUpdate, failed, i, err, listing, calls,
          summary, prevOk, prevLeft, issued, cd, cres>>

\* ------------------------------------------------------------- classifier
eqNilMatches(s, to) == s = Nil \/ s = to

eq(s, to) == s # Nil /\ s = to

rangeConditionsFirstOnly(conds, k) ==
    /\ k <= Len(conds)
    /\ eq(conds[k].type, "Progressing")
    /\ eq(conds[k].status, "False")
    /\ eq(conds[k].reason, "ProgressDeadlineExceeded")

RECURSIVE rangeConditions(_, _)
rangeConditions(conds, k) ==
    IF k > Len(conds) THEN FALSE
    ELSE IF /\ eq(conds[k].type, "Progressing")
            /\ eq(conds[k].status, "False")
            /\ eq(conds[k].reason, "ProgressDeadlineExceeded")
         THEN TRUE
         ELSE rangeConditions(conds, k + 1)

deploymentFailed(d) == rangeConditions(d.conditions, 1)

\* ---------------------------------------------------------------- planner
\* The range loop over deployments.Items: toUpdate and failed as it leaves them.
RECURSIVE rangeItemsNoNilCheck(_, _, _, _)
rangeItemsNoNilCheck(items, k, upd, cnt) ==
    IF k > Len(items) THEN [toUpdate |-> upd, failed |-> cnt]
    ELSE IF ~deploymentFailed(items[k]) THEN rangeItemsNoNilCheck(items, k + 1, upd, cnt)
         ELSE rangeItemsNoNilCheck(items, k + 1, Append(upd, items[k]), cnt + 1)

RECURSIVE rangeItemsCountNeedy(_, _, _, _)
rangeItemsCountNeedy(items, k, upd, cnt) ==
    IF k > Len(items) THEN [toUpdate |-> upd, failed |-> cnt]
    ELSE IF ~deploymentFailed(items[k]) THEN rangeItemsCountNeedy(items, k + 1, upd, cnt)
         ELSE IF items[k].rollbackTo = RollbackNil
              THEN rangeItemsCountNeedy(items, k + 1, Append(upd, items[k]), cnt + 1)
              ELSE rangeItemsCountNeedy(items, k + 1, upd, cnt)

RECURSIVE rangeItemsDropsLast(_, _, _, _)
rangeItemsDropsLast(items, k, upd, cnt) ==
    IF k >= Len(items) THEN [toUpdate |-> upd, failed |-> cnt]
    ELSE IF ~deploymentFailed(items[k]) THEN rangeItemsDropsLast(items, k + 1, upd, cnt)
         ELSE IF items[k].rollbackTo = RollbackNil
              THEN rangeItemsDropsLast(items, k + 1, Append(upd, items[k]), cnt + 1)
              ELSE rangeItemsDropsLast(items, k + 1, upd, cnt + 1)

RECURSIVE rangeItemsPrepend(_, _, _, _)
rangeItemsPrepend(items, k, upd, cnt) ==
    IF k > Len(items) THEN [toUpdate |-> upd, failed |-> cnt]
    ELSE IF ~deploymentFailed(items[k]) THEN rangeItemsPrepend(items, k + 1, upd, cnt)
         ELSE IF items[k].rollbackTo = RollbackNil
              THEN rangeItemsPrepend(items, k + 1, <<items[k]>> \o upd, cnt + 1)
              ELSE rangeItemsPrepend(items, k + 1, upd, cnt + 1)

RECURSIVE rangeItems(_, _, _, _)
rangeItems(items, k, upd, cnt) ==
    IF k > Len(items) THEN [toUpdate |-> upd, failed |-> cnt]
    ELSE IF ~deploymentFailed(items[k]) THEN rangeItems(items, k + 1, upd, cnt)
         ELSE IF items[k].rollbackTo = RollbackNil
              THEN rangeItems(items, k + 1, Append(upd, items[k]), cnt + 1)
              ELSE rangeItems(items, k + 1, upd, cnt + 1)

summaryLineCountsToUpdate(items, cnt, upd) ==
    [deployments |-> Len(items), failed |-> cnt, rolledBack |-> Len(upd)]

\* The arguments of the "deployments=%d, failed=%d, rolled back=%d" line.
summaryLine(items, cnt, upd) ==
    [deployments |-> Len(items), failed |-> cnt, rolledBack |-> cnt - Len(upd)]

\* -------------------------------------------------------------- directory
\* ListDeployments: the deployments that exist, in name order.
RECURSIVE listFrom(_, _)
listFrom(d, n) ==
    IF n > NumRecords THEN <<>>
    ELSE IF d[n] = NotFound THEN listFrom(d, n + 1)
         ELSE <<d[n]>> \o listFrom(d, n + 1)

ListDeployments(d) == listFrom(d, 1)

\* UpdateDeployment: a whole-object replace of an existing deployment.
UpdateDeployment(d, obj) == [d EXCEPT ![obj.name] = obj]

\* What a name of the namespace may hold.
Entries(n) == {NotFound} \cup {Deployment(n, c, rb) : c \in CondChoices, rb \in RollbackValues}

Directories == {d \in [Names -> UNION {Entries(n) : n \in Names}] : \A n \in Names : d[n] \in Entries(n)}

\* The namespace when the controller starts: any deployments, none of which
\* anybody has asked to roll back yet.
InitialDirectories == {d \in Directories : \A n \in Names : d[n].rollbackTo = RollbackNil}

\* ------------------------------------------------------------------- Init
InitRun ==
    /\ pc = "list"
    /\ deployments = <<>>
    /\ toUpdate = <<>>
    /\ failed = 0
    /\ i = 1
    /\ err = "nil"
    /\ listing = <<>>
    /\ calls = <<>>
    /\ summary = <<>>
    /\ prevOk = {}
    /\ prevLeft = {}

Init ==
    /\ dir \in InitialDirectories
    /\ envSteps = 0
    /\ issued = {}
    /\ InitRun
    /\ cd = NotFound
    /\ cres = <<>>

\* ----------------------------------------------------------------- run
\* line 48, err == nil
ListOk ==
    /\ pc = "list"
    /\ deployments' = ListDeployments(dir)
    /\ listing' = ListDeployments(dir)
    /\ pc' = "scan"
    /\ UNCHANGED <<dir, envSteps, toUpdate, failed, i, err, calls, summary, prevOk, prevLeft, issued, cd, cres>>

ListFailNoReturn ==
    /\ pc = "list"
    /\ err' = "list"
    /\ summary' = <<summaryLine(<<>>, 0, <<>>)>>
    /\ pc' = "returned"
    /\ UNCHANGED <<dir, envSteps, deployments, toUpdate, failed, i, listing, calls, prevOk, prevLeft, issued,
                   cd, cres>>

\* lines 48-51, err != nil
ListFail ==
    /\ pc = "list"
    /\ err' = "list"
    /\ pc' = "returned"
    /\ UNCHANGED <<dir, envSteps, deployments, toUpdate, failed, i, listing, calls, summary,
                   prevOk, prevLeft, issued, cd, cres>>

ScanSkipsPrevOk ==
    /\ pc = "scan"
    /\ LET r == rangeItems(deployments, 1, <<>>, 0)
           notYet(d) == d.name \notin prevOk
       IN
          /\ toUpdate' = SelectSeq(r.toUpdate, notYet)
          /\ failed' = r.failed
          /\ summary' = <<summaryLine(deployments, r.failed, SelectSeq(r.toUpdate, notYet))>>
    /\ i' = 1
    /\ pc' = "update"
    /\ UNCHANGED <<dir, envSteps, deployments, err, listing, calls, prevOk, prevLeft, issued, cd, cres>>

ScanLogsLater ==
    /\ pc = "scan"
    /\ LET r == rangeItems(deployments, 1, <<>>, 0) IN
          /\ toUpdate' = r.toUpdate
          /\ failed' = r.failed
    /\ i' = 1
    /\ pc' = "update"
    /\ UNCHANGED <<dir, envSteps, deployments, err, listing, calls, summary, prevOk, prevLeft,
                   issued, cd, cres>>

\* lines 53-69: the loop over the items and the summary line
Scan ==
    /\ pc = "scan"
    /\ LET r == rangeItems(deployments, 1, <<>>, 0) IN
          /\ toUpdate' = r.toUpdate
          /\ failed' = r.failed
          /\ summary' = <<summaryLine(deployments, r.failed, r.toUpdate)>>
    /\ i' = 1
    /\ pc' = "update"
    /\ UNCHANGED <<dir, envSteps, deployments, err, listing, calls, prevOk, prevLeft, issued, cd, cres>>

withRollbackToUnset(d) == d

\* lines 72-75: d.Spec.RollbackTo = &RollbackConfig{Revision: &lastRevision}
withRollbackTo(d) == [d EXCEPT !.rollbackTo = RollbackConfig(lastRevision)]

\* d is a pointer that deployments.Items and toUpdate share: both see the field set.
setRollbackTo(items, n) ==
    [k \in 1..Len(items) |-> IF items[k].name = n THEN withRollbackTo(items[k]) ELSE items[k]]

UpdateOkIfUnchanged ==
    /\ pc = "update"
    /\ i <= Len(toUpdate)
    /\ LET n == toUpdate[i].name
           d == withRollbackTo(toUpdate[i])
       IN  /\ dir[n] # NotFound
           /\ dir[n] = toUpdate[i]
           /\ dir' = UpdateDeployment(dir, d)
           /\ deployments' = setRollbackTo(deployments, n)
           /\ toUpdate' = setRollbackTo(toUpdate, n)
           /\ calls' = Append(calls, [name |-> n, obj |-> d, ok |-> TRUE, before |-> dir[n]])
           /\ issued' = issued \cup {n}
    /\ i' = i + 1
    /\ UNCHANGED <<envSteps, pc, failed, err, listing, summary, prevOk, prevLeft, cd, cres>>

\* lines 71-79, the update succeeds
UpdateOk ==
    /\ pc = "update"
    /\ i <= Len(toUpdate)
    /\ LET n == toUpdate[i].name
           d == withRollbackTo(toUpdate[i])
       IN  /\ dir[n] # NotFound
           /\ dir' = UpdateDeployment(dir, d)
           /\ deployments' = setRollbackTo(deployments, n)
           /\ toUpdate' = setRollbackTo(toUpdate, n)
           /\ calls' = Append(calls, [name |-> n, obj |-> d, ok |-> TRUE, before |-> dir[n]])
           /\ issued' = issued \cup {n}
    /\ i' = i + 1
    /\ UNCHANGED <<envSteps, pc, failed, err, listing, summary, prevOk, prevLeft, cd, cres>>

UpdateFailContinue ==
    /\ pc = "update"
    /\ i <= Len(toUpdate)
    /\ LET n == toUpdate[i].name
           d == withRollbackTo(toUpdate[i])
       IN  /\ deployments' = setRollbackTo(deployments, n)
           /\ toUpdate' = setRollbackTo(toUpdate, n)
           /\ calls' = Append(calls, [name |-> n, obj |-> d, ok |-> FALSE, before |-> dir[n]])
    /\ i' = i + 1
    /\ UNCHANGED <<dir, envSteps, pc, failed, err, listing, summary, prevOk, prevLeft, issued, cd, cres>>

\* lines 71-78, the update fails
UpdateFail ==
    /\ pc = "update"
    /\ i <= Len(toUpdate)
    /\ LET n == toUpdate[i].name
           d == withRollbackTo(toUpdate[i])
       IN  /\ deployments' = setRollbackTo(deployments, n)
           /\ toUpdate' = setRollbackTo(toUpdate, n)
           /\ calls' = Append(calls, [name |-> n, obj |-> d, ok |-> FALSE, before |-> dir[n]])
    /\ err' = "update"
    /\ pc' = "returned"
    /\ UNCHANGED <<dir, envSteps, failed, i, listing, summary, prevOk, prevLeft, issued, cd, cres>>

\* line 81
ReturnNil ==
    /\ pc = "update"
    /\ i > Len(toUpdate)
    /\ err' = "nil"
    /\ pc' = "returned"
    /\ UNCHANGED <<dir, envSteps, deployments, toUpdate, failed, i, listing, calls, summary,
                   prevOk, prevLeft, issued, cd, cres>>

okNames(cs) == {cs[k].name : k \in {j \in 1..Len(cs) : cs[j].ok}}

\* The names of toUpdate after position i when run returned an update error
\* (lines 76-78 return from inside the loop); a list error leaves them as
\* they were, a nil return leaves none.
leftNames(e, upd, k, left) ==
    IF e = "update" THEN {upd[j].name : j \in (k + 1)..Len(upd)}
    ELSE IF e = "list" THEN left
    ELSE {}

SleepUnlessError ==
    /\ pc = "returned"
    /\ err = "nil"
    /\ pc' = "list"
    /\ deployments' = <<>>
    /\ toUpdate' = <<>>
    /\ failed' = 0
    /\ i' = 1
    /\ listing' = <<>>
    /\ calls' = <<>>
    /\ summary' = <<>>
    /\ prevOk' = okNames(calls)
    /\ prevLeft' = leftNames(err, toUpdate, i, prevLeft)
    /\ UNCHANGED <<dir, envSteps, err, issued, cd, cres>>

SleepAnyTime ==
    /\ pc \in {"returned", "update"}
    /\ pc' = "list"
    /\ deployments' = <<>>
    /\ toUpdate' = <<>>
    /\ failed' = 0
    /\ i' = 1
    /\ listing' = <<>>
    /\ calls' = <<>>
    /\ summary' = <<>>
    /\ prevOk' = okNames(calls)
    /\ prevLeft' = leftNames(err, toUpdate, i, prevLeft)
    /\ UNCHANGED <<dir, envSteps, err, issued, cd, cres>>

\* lines 140-146: log the error if any, sleep, call run again
Sleep ==
    /\ pc = "returned"
    /\ pc' = "list"
    /\ deployments' = <<>>
    /\ toUpdate' = <<>>
    /\ failed' = 0
    /\ i' = 1
    /\ listing' = <<>>
    /\ calls' = <<>>
    /\ summary' = <<>>
    /\ prevOk' = okNames(calls)
    /\ prevLeft' = leftNames(err, toUpdate, i, prevLeft)
    /\ UNCHANGED <<dir, envSteps, err, issued, cd, cres>>

\* --------------------------------------------------------- other actors
EnvWrite(n, e) ==
    /\ envSteps < MaxEnvSteps
    /\ dir[n] # e
    /\ dir' = [dir EXCEPT ![n] = e]
    /\ envSteps' = envSteps + 1
    /\ issued' = IF e.rollbackTo = RollbackNil THEN issued \ {n} ELSE issued
    /\ UNCHANGED <<runVars, cd, cres>>

\* The deployment controller rewrites Status.Conditions.
EnvSetConditions ==
    \E n \in Names, c \in CondChoices :
        /\ dir[n] # NotFound
        /\ EnvWrite(n, [dir[n] EXCEPT !.conditions = c])

\* An operator or another controller sets Spec.RollbackTo.
EnvSetRollback ==
    \E n \in Names, r \in Revisions :
        /\ dir[n] # NotFound
        /\ EnvWrite(n, [dir[n] EXCEPT !.rollbackTo = RollbackConfig(r)])

\* The deployment controller has acted on Spec.RollbackTo and clears it.
EnvClearRollback ==
    \E n \in Names :
        /\ dir[n] # NotFound
        /\ EnvWrite(n, [dir[n] EXCEPT !.rollbackTo = RollbackNil])

EnvDelete ==
    \E n \in Names :
        /\ dir[n] # NotFound
        /\ EnvWrite(n, NotFound)

EnvCreate ==
    \E n \in Names, c \in CondChoices :
        /\ dir[n] = NotFound
        /\ EnvWrite(n, Deployment(n, c, RollbackNil))

Controller == ListOk \/ ListFail \/ Scan \/ UpdateOk \/ UpdateFail \/ ReturnNil \/ Sleep

Env == EnvSetConditions \/ EnvSetRollback \/ EnvClearRollback \/ EnvDelete \/ EnvCreate

Next ==
    \/ ListOk
    \/ ListFail
    \/ Scan
    \/ UpdateOk
    \/ UpdateFail
    \/ ReturnNil
    \/ Sleep
    \/ EnvSetConditions
    \/ EnvSetRollback
    \/ EnvClearRollback
    \/ EnvDelete
    \/ EnvCreate

Spec == Init /\ [][Next]_vars

\* run and main are sequential code and every API call returns: the controller
\* always takes its next step.
\* The namespaces it is followed from hold failed deployments only, which
\* give a pass the most to do.
LiveInit == Init /\ \A n \in Names : dir[n] = NotFound \/ deploymentFailed(dir[n])

LiveSpec == LiveInit /\ [][Next]_vars /\ WF_vars(Controller)

\* ------------------------------------------------- classifier on its own
CondSeqs == UNION {[1..m -> Conditions] : m \in 0..MaxConds}

InitClassify ==
    /\ dir = [n \in Names |-> NotFound]
    /\ envSteps = 0
    /\ issued = {}
    /\ InitRun
    /\ cd \in {Deployment(1, cs, RollbackNil) : cs \in CondSeqs}
    /\ cres = <<>>

Classify ==
    /\ cres = <<>>
    /\ cres' = <<deploymentFailed(cd)>>
    /\ UNCHANGED <<dir, envSteps, issued, runVars, cd>>

NextClassify == Classify

SpecClassify == InitClassify /\ [][NextClassify]_vars

\* ================================================================ claims
\* What the claims speak of, read off the history of the pass.
needsRollback(d) == deploymentFailed(d) /\ d.rollbackTo = RollbackNil

Listed(n) == \E j \in 1..Len(listing) : listing[j].name = n

ListedAs(n) == listing[CHOOSE j \in 1..Len(listing) : listing[j].name = n]

CallsFor(n) == {k \in 1..Len(calls) : calls[k].name = n}

OkCalls == {k \in 1..Len(calls) : calls[k].ok}

NameSeq(items) == [k \in 1..Len(items) |-> items[k].name]

\* The listing of the example: A healthy, B failed without a rollback
\* request, C failed with one.
ExampleListing ==
    /\ Len(listing) = 3
    /\ ~deploymentFailed(listing[1])
    /\ needsRollback(listing[2])
    /\ deploymentFailed(listing[3]) /\ listing[3].rollbackTo # RollbackNil

\* C1: every update of the controller that lands finds the stored deployment
\* without a rollback request (it never replaces one that is there).
C1_NeverOverwritesPresent ==
    \A k \in OkCalls : calls[k].before.rollbackTo = RollbackNil

\* C2: in a pass, an update is called only for a deployment that the pass's
\* listing shows failed and without a rollback request.
C2_OnlyListedNeedyUpdated ==
    \A k \in 1..Len(calls) : Listed(calls[k].name) /\ needsRollback(ListedAs(calls[k].name))

C2_Witness ==
    /\ ExampleListing
    /\ pc = "returned" /\ err = "nil"
    /\ NameSeq(calls) = <<listing[2].name>>

\* C3: when a pass returns nil, every deployment listed failed without a
\* rollback request got exactly one update call, and every object the
\* controller submits carries rollbackTo.revision = 0, never another value.
C3_SuccessUpdatesEachOnce ==
    /\ \A k \in 1..Len(calls) : calls[k].obj.rollbackTo = RollbackConfig(0)
    /\ (pc = "returned" /\ err = "nil") =>
          \A j \in 1..Len(listing) :
              needsRollback(listing[j]) => Cardinality(CallsFor(listing[j].name)) = 1

C3_Witness ==
    /\ pc = "returned" /\ err = "nil"
    /\ Len(listing) = 3
    /\ \A j \in 1..3 : needsRollback(listing[j])
    /\ Len(calls) = 3 /\ OkCalls = 1..3

\* C4: a deployment updated successfully in the previous pass and listed in
\* this pass with the written rollback request gets no update call in this pass.
C4_NoSecondDispatch ==
    \A n \in prevOk :
        (Listed(n) /\ ListedAs(n).rollbackTo = RollbackConfig(lastRevision)) => CallsFor(n) = {}

C4_Witness ==
    /\ pc = "returned" /\ err = "nil"
    /\ \E n \in prevOk :
          /\ Listed(n)
          /\ deploymentFailed(ListedAs(n))
          /\ ListedAs(n).rollbackTo = RollbackConfig(lastRevision)
          /\ CallsFor(n) = {}

\* C5: a failed update ends the pass with an error: it is the last call of
\* the pass, every call before it succeeded, and the failing step leaves the
\* directory as it was, so the earlier writes of the pass stand.
C5_FailFast ==
    /\ [](\A k \in 1..Len(calls) :
             ~calls[k].ok => (k = Len(calls) /\ pc = "returned" /\ err = "update"))
    /\ [][(Len(calls') = Len(calls) + 1 /\ ~calls'[Len(calls')].ok) =>
             (dir' = dir /\ SubSeq(calls', 1, Len(calls)) = calls)]_vars

C5_Witness ==
    /\ pc = "returned" /\ err = "update"
    /\ Len(toUpdate) = 3
    /\ Len(calls) = 2 /\ calls[1].ok /\ ~calls[2].ok
    /\ dir[calls[1].name].rollbackTo = RollbackConfig(lastRevision)
    /\ dir[toUpdate[2].name].rollbackTo = RollbackNil
    /\ dir[toUpdate[3].name].rollbackTo = RollbackNil

\* C6: a pass whose list fails returns the error with nothing scanned, no
\* update called and no summary line, and its step leaves the directory as it was.
C6_ListErrorDoesNothing ==
    /\ []((pc = "returned" /\ err = "list") =>
             /\ listing = <<>> /\ deployments = <<>>
             /\ toUpdate = <<>> /\ failed = 0
             /\ calls = <<>>
             /\ summary = <<>>)
    /\ [][(pc = "list" /\ pc' = "returned") => (err' = "list" /\ dir' = dir)]_vars

C6_Witness ==
    /\ pc = "returned" /\ err = "list"
    /\ \E n \in Names : dir[n] # NotFound /\ needsRollback(dir[n])
    /\ prevOk # {}

\* C7: deploymentFailed is true exactly when one condition has type present
\* and "Progressing", status present and "False", reason present and
\* "ProgressDeadlineExceeded".
OneConditionMatches(conds) ==
    \E k \in 1..Len(conds) :
        /\ conds[k].type # Nil /\ conds[k].type = "Progressing"
        /\ conds[k].status # Nil /\ conds[k].status = "False"
        /\ conds[k].reason # Nil /\ conds[k].reason = "ProgressDeadlineExceeded"

C7_FailedIffOneCondition ==
    cres # <<>> => (cres[1] <=> OneConditionMatches(cd.conditions))

\* The three matches spread over two conditions, one of them with a field absent.
C7_Witness ==
    /\ cres = <<FALSE>>
    /\ Len(cd.conditions) = 2
    /\ cd.conditions[1] = [type |-> "Progressing", status |-> "False", reason |-> Nil]
    /\ cd.conditions[2].reason = "ProgressDeadlineExceeded"
    /\ cd.conditions[2].status = "False"

\* C8: after the scan, toUpdate is the subsequence of the listing that is
\* failed without a rollback request, failed counts the failed items with or
\* without one, and the total of the summary is the length of the listing.
C8_PlanIsFilter ==
    summary # <<>> =>
        /\ NameSeq(toUpdate) = NameSeq(SelectSeq(listing, needsRollback))
        /\ calls = <<>> => toUpdate = SelectSeq(listing, needsRollback)
        /\ failed = Cardinality({j \in 1..Len(listing) : deploymentFailed(listing[j])})
        /\ summary[1].failed = failed
        /\ summary[1].deployments = Len(listing)

C8_Witness ==
    /\ ExampleListing
    /\ pc = "update" /\ calls = <<>>
    /\ failed = 2
    /\ toUpdate = <<listing[2]>>
    /\ summary[1].deployments = 3

\* C9 as claimed: the rolledBack of the summary is the number of updates
\* that succeeded in the pass.
C9_RolledBackCountsUpdates ==
    (pc = "returned" /\ summary # <<>>) => summary[1].rolledBack = Cardinality(OkCalls)

\* C9 amended: the rolledBack of the summary is the number of listed failed
\* deployments that already had a rollback request in the listing.
C9_RolledBackCountsAlreadyRequested ==
    summary # <<>> =>
        summary[1].rolledBack =
            Cardinality({j \in 1..Len(listing) :
                            deploymentFailed(listing[j]) /\ listing[j].rollbackTo # RollbackNil})

C9_Witness ==
    /\ pc = "returned" /\ err = "nil"
    /\ Len(calls) = 2 /\ OkCalls = {1, 2}
    /\ summary[1].failed = 3
    /\ summary[1].rolledBack = 1

\* C10: whatever a pass returned (nil, a list error, an update error), the
\* next pass starts, and passes start again and again.
C10_LoopNeverStops ==
    /\ (pc = "returned") ~> (pc = "list")
    /\ []<>(pc = "list")

C10_Witness ==
    /\ pc = "scan"
    /\ err = "update"
    /\ prevOk # {}

\* C11: one pass at a time and one API call at a time: a pass starts only
\* when the previous one has returned, the list of a pass is made before any
\* of its updates, and the k-th update is called only when the k-1 before it
\* have returned.
C11_OnePassOneCall ==
    [][/\ (pc' = "list" /\ pc # "list") => pc = "returned"
       /\ (pc = "list" /\ pc' # "list") => (calls = <<>> /\ calls' = <<>>)
       /\ calls' # calls =>
             \/ calls' = <<>> /\ pc = "returned"
             \/ /\ pc = "update"
                /\ Len(calls) = i - 1
                /\ calls' = Append(calls, calls'[Len(calls')])]_vars

C11_Witness ==
    /\ pc = "update"
    /\ prevOk # {}
    /\ prevLeft # {}
    /\ Len(calls) = 2

\* The deployments of this pass's listing that the last aborted pass left
\* undispatched and that are still failed without a rollback request.
StillNeedy == {n \in prevLeft : Listed(n) /\ needsRollback(ListedAs(n))}

\* The names after the failed update are not called in the pass it ended.
LeftUnwritten ==
    (pc = "returned" /\ err = "update") =>
        \A k \in (i + 1)..Len(toUpdate) : CallsFor(toUpdate[k].name) = {}

\* C12 as claimed: the names an aborted pass left undispatched get no call
\* in it, and in the next pass that lists, each of them still failed without
\* a rollback request gets an update call.
C12_LeftAreCalledNextPass ==
    /\ LeftUnwritten
    /\ (pc = "returned" /\ err # "list") => \A n \in StillNeedy : CallsFor(n) # {}

\* C12 amended: ... each of them still failed without a rollback request is
\* in toUpdate again, and gets an update call unless an earlier update of
\* that pass fails (it does when the pass returns nil).
C12_LeftAreCandidatesNextPass ==
    /\ LeftUnwritten
    /\ summary # <<>> => \A n \in StillNeedy : \E k \in 1..Len(toUpdate) : toUpdate[k].name = n
    /\ (pc = "returned" /\ err = "nil") => \A n \in StillNeedy : CallsFor(n) # {}
    /\ (pc = "returned" /\ err = "update") =>
          \A n \in StillNeedy :
              CallsFor(n) # {} \/ \E k \in 1..Len(calls) : ~calls[k].ok /\ calls[k].name # n

\* A pass that returned nil after re-attempting what the aborted pass left.
C12_Witness ==
    /\ pc = "returned" /\ err = "nil"
    /\ prevLeft # {}
    /\ StillNeedy = prevLeft
    /\ \A n \in prevLeft : \E k \in CallsFor(n) : calls[k].ok
    /\ prevOk # {}

\* C13: an update of the controller that lands changes only rollbackTo: the
\* deployment was there before the write, and its name and conditions after
\* the write (those of the submitted object) are the ones the directory held
\* just before it.
C13_WritesOnlyRollbackTo ==
    \A k \in OkCalls :
        /\ calls[k].before # NotFound
        /\ calls[k].obj.name = calls[k].before.name
        /\ calls[k].obj.conditions = calls[k].before.conditions

\* What a pass does, as a function of the list result and of the outcomes
\* of its update calls alone: the objects it submits, in order, and what it
\* returns.
PlannedObjects(items) ==
    LET plan == SelectSeq(items, needsRollback)
    IN  [k \in 1..Len(plan) |-> [plan[k] EXCEPT !.rollbackTo = RollbackConfig(0)]]

PassResult(items, oks) ==
    IF \E k \in 1..Len(oks) : ~oks[k] THEN "update" ELSE "nil"

Outcomes == [k \in 1..Len(calls) |-> calls[k].ok]

\* C14: nothing carries between passes: the update calls of a pass and its
\* result are the function above of its list result and update outcomes,
\* whatever the earlier passes listed, wrote or returned.
C14_PassIsFunctionOfItsInputs ==
    /\ (pc = "returned" /\ err = "list") => calls = <<>>
    /\ (pc = "returned" /\ err # "list") =>
          /\ [k \in 1..Len(calls) |-> calls[k].obj]
                = SubSeq(PlannedObjects(listing), 1, Len(calls))
          /\ err = PassResult(listing, Outcomes)
          /\ err = "nil" => Len(calls) = Len(PlannedObjects(listing))
          /\ \A k \in 1..Len(calls) : ~calls[k].ok => k = Len(calls)

\* A pass that updates again a deployment the previous pass had updated.
C14_Witness ==
    /\ pc = "returned" /\ err = "nil"
    /\ calls # <<>>
    /\ calls[1].name \in prevOk
    /\ Len(listing) = 3

\* C15: the update is blind. An update of a deployment that exists is never
\* held back by what the directory holds at that moment, and when it succeeds
\* the stored deployment becomes the submitted one. So the race is open: the
\* witness is a deployment listed without a rollback request, given revision
\* 1 by another actor, then overwritten with revision 0 by a pass that
\* returns nil.
C15_UpdateIsBlind ==
    /\ []((pc = "update" /\ i <= Len(toUpdate) /\ dir[toUpdate[i].name] # NotFound)
             => ENABLED UpdateOk)
    /\ [][(Len(calls') = Len(calls) + 1 /\ calls'[Len(calls')].ok) =>
             dir'[calls'[Len(calls')].name] = calls'[Len(calls')].obj]_vars

C15_Witness ==
    /\ pc = "returned" /\ err = "nil"
    /\ \E k \in OkCalls :
          /\ ListedAs(calls[k].name).rollbackTo = RollbackNil
          /\ calls[k].before.rollbackTo = RollbackConfig(1)
          /\ dir[calls[k].name].rollbackTo = RollbackConfig(0)

PosInListing(n) == CHOOSE j \in 1..Len(listing) : listing[j].name = n

\* C17: the update calls of a pass are made in the order of its listing.
C17_UpdatesInListingOrder ==
    \A k1, k2 \in 1..Len(calls) :
        k1 < k2 =>
            /\ Listed(calls[k1].name) /\ Listed(calls[k2].name)
            /\ PosInListing(calls[k1].name) < PosInListing(calls[k2].name)

\* The first and the third of the listing are called, in that order, the
\* second needing no call.
C17_Witness ==
    /\ Len(listing) = 3
    /\ ~needsRollback(listing[2])
    /\ NameSeq(calls) = <<listing[1].name, listing[3].name>>

\* The condition lists that hold the conditions of conds in another order.
Reorderings(conds) ==
    {[k \in 1..Len(conds) |-> conds[p[k]]] :
        p \in {q \in [1..Len(conds) -> 1..Len(conds)] :
                  \A a, b \in 1..Len(conds) : q[a] = q[b] => a = b}}

\* C18: deploymentFailed gives the same result for the conditions in any
\* order, and a failed deployment stays failed with any further condition
\* put before or after its own.
C18_OrderAndExtrasDoNotMatter ==
    cres # <<>> =>
        /\ \A cs \in Reorderings(cd.conditions) :
              deploymentFailed([cd EXCEPT !.conditions = cs]) = cres[1]
        /\ cres[1] =>
              \A c \in Conditions :
                  /\ deploymentFailed([cd EXCEPT !.conditions = Append(cd.conditions, c)])
                  /\ deploymentFailed([cd EXCEPT !.conditions = <<c>> \o cd.conditions])

\* Failed by its second condition, the first one matching in part only.
C18_Witness ==
    /\ cres = <<TRUE>>
    /\ Len(cd.conditions) = 2
    /\ cd.conditions[1] = [type |-> "Progressing", status |-> "True",
                           reason |-> "ProgressDeadlineExceeded"]
    /\ cd.conditions[2] = [type |-> "Progressing", status |-> "False",
                           reason |-> "ProgressDeadlineExceeded"]

\* Deployment n is there, classified failed, and no other actor's rollback
\* request stands on it.
StaysFailed(n) ==
    /\ dir[n] # NotFound
    /\ deploymentFailed(dir[n])
    /\ dir[n].rollbackTo # RollbackConfig(1)

\* C19: if from some point on no pass returns an error (every list and
\* every update succeeds) and a deployment stays failed with no other
\* actor's request on it, its rollbackTo is in the end revision 0, wherever
\* it stands in the listing.
C19_EventuallyRolledBack ==
    \A n \in Names :
        (<>[](err = "nil") /\ <>[]StaysFailed(n))
            => <>[](dir[n].rollbackTo = RollbackConfig(lastRevision))

\* The last of three deployments needing rollback, left behind by a pass
\* that failed on the first, and updated by the next pass.
C19_Witness ==
    /\ pc = "returned" /\ err = "nil"
    /\ Len(listing) = 3
    /\ listing[3].name \in prevLeft
    /\ NameSeq(calls) = NameSeq(listing)
    /\ OkCalls = {1, 2, 3}
    /\ dir[listing[3].name].rollbackTo = RollbackConfig(lastRevision)

\* C20: the controller writes a rollback request to a deployment it has
\* already written one to only after another actor has cleared the request
\* (or deleted the deployment, a recreated one being a new record); until
\* then the request it wrote stays in the directory.
C20_NoRepeatWithoutClear ==
    /\ [](\A n \in issued : dir[n] # NotFound /\ dir[n].rollbackTo # RollbackNil)
    /\ [][\A n \in Names :
             (Len(calls') = Len(calls) + 1 /\ calls'[Len(calls')].ok
                 /\ calls'[Len(calls')].name = n) => n \notin issued]_vars

\* A second request for a deployment, the first having been cleared by
\* another actor between the two passes.
C20_Witness ==
    /\ pc = "returned"
    /\ envSteps = 1
    /\ \E n \in prevOk \cap issued :
          /\ \E k \in CallsFor(n) : calls[k].ok /\ calls[k].before.rollbackTo = RollbackNil
          /\ dir[n].rollbackTo = RollbackConfig(lastRevision)
====
